---------------------------- MODULE Spec2Model ----------------------------
(***************************************************************************)
(* Model of the quest_log focus timer.                                     *)
(*                                                                         *)
(* The Timer module (src/js/timer.js) is a closure over six mutable        *)
(* variables and four single-slot callbacks.  Its public functions call    *)
(* one another (toggle -> start/pause, adjustTime -> setTime,              *)
(* startBreak -> start, tick -> complete), so each function is written as  *)
(* an operator from a timer record to a timer record, and each action of   *)
(* the state machine applies one public function (or one firing of an      *)
(* interval timer) to the current variables.                               *)
(*                                                                         *)
(* The callbacks are observed, not interpreted: every call of onTick,      *)
(* onStateChange, onComplete or onWarning appends one event to the field   *)
(* `out`, and the events of the last operation are kept in `events`.       *)
(*                                                                         *)
(* The History module (src/unnamed/part_000) keeps the session records in  *)
(* the browser's localStorage.  Its functions are operators on the storage *)
(* they run against; the history has its own specifications (SpecHistory,  *)
(* SpecFill), in which the timer stays as constructed.                     *)
(***************************************************************************)
EXTENDS Integers, Sequences, FiniteSets

(***************************************************************************)
(* Program constants                                                       *)
(***************************************************************************)
\* timer.js:9-10  let totalSeconds = 14400; let remainingSeconds = 14400;
DEFAULT_SECONDS == 14400
\* timer.js:174  Math.max(60, Math.min(seconds, 43200))
MIN_SECONDS == 60
MAX_SECONDS == 43200
\* timer.js:154  if (duration > 60)
ABORT_LOG_THRESHOLD == 60
\* timer.js:22  const WARNING_THRESHOLDS = [300, 60];
WARNING_THRESHOLDS == <<300, 60>>

Thresholds == {WARNING_THRESHOLDS[i] : i \in DOMAIN WARNING_THRESHOLDS}

\* timer.js:11  let intervalId = null;  (also sessionStartTime = null)
NULL == 0

\* part_000:6-7  keys of the two items History keeps in localStorage
STORAGE_KEY == "questlog_sessions"
SETTINGS_KEY == "questlog_settings"
\* part_000:51  if (sessions.length > 1000)
MAX_SESSIONS == 1000
\* part_000:122  Date.now() - 86400000
MS_PER_DAY == 86400000
\* part_000:89-90  Math.floor(seconds / 3600), Math.floor((seconds % 3600) / 60)
SECONDS_PER_HOUR == 3600
SECONDS_PER_MINUTE == 60

(***************************************************************************)
(* Bounds of the model                                                     *)
(***************************************************************************)
\* A session is followed for at most this many elapsed seconds
\* (totalSeconds - remainingSeconds); enough to run a 302 s session through
\* both warnings to completion, and to stop a 12 h session early.
MaxElapsed == 304
\* The wall clock takes the values 1 .. MaxNow.
MaxNow == 2
\* The configured time of a paused session is changed only while the session
\* has seen at most this many ticks.
MaxRetimeTicks == 1

\* At most this many sessions are added to a history that is then queried.
MaxAdds == 3
\* The history is followed for this many days after the first.
MaxDays == 2
\* A history filled to the limit of 1000 records receives this many more.
MaxOverfill == 2
\* The controller is followed through this many focus sessions.
MaxSessions == 2
\* The controller in everyday use runs the sessions and the breaks of up to
\* this many seconds.
MaxFollowed == 300

\* Arguments of setTime: below the range, inside it (above both warning
\* thresholds), above the range.
SetTimeArgs == {10, 302, 999999}
\* Arguments of adjustTime: clamping and non-clamping steps.
AdjustArgs == {-50000, -242, 242, 50000}
\* Arguments of startBreak: negative, zero, and a break long enough to be
\* logged on abort and to cross the 60 s warning.
BreakArgs == {-1, 0, 70}

VARIABLES
    state,             \* timer.js:8   'idle' | 'running' | 'paused'
    totalSeconds,      \* timer.js:9
    remainingSeconds,  \* timer.js:10
    intervalId,        \* timer.js:11  handle of the interval timer, or NULL
    sessionStartTime,  \* timer.js:12  a clock value, or NULL
    isBreak,           \* timer.js:13
    triggeredWarnings, \* timer.js:23  set of thresholds
    timers,            \* the environment: ids of the active interval timers
    now,               \* the environment: the wall clock (new Date())
    events,            \* observation: callbacks invoked by the last operation
    lastOp,            \* observation: the last operation and its argument
    sess,              \* observation: the session in progress
    localStorage,      \* the environment: the browser's localStorage
    ret,               \* observation: the last History call and its result
    added,             \* observation: the records created so far, newest first
    quiet,             \* the environment: the user has stopped acting
    saved,             \* observation: the value last saved for each setting
    currentPreset,     \* app.js:57   the duration the controller returns to
    breakModal,        \* app.js:465-473  the break dialog is shown
    abortModal,        \* app.js:486-494  the abort dialog is shown
    isEnabled,         \* part_001:7  the keyboard shortcuts are enabled
    threw              \* observation: the last step ended in an exception

vars == <<state, totalSeconds, remainingSeconds, intervalId, sessionStartTime,
          isBreak, triggeredWarnings, timers, now, events, lastOp, sess,
          localStorage, ret, added, quiet, saved, currentPreset, breakModal,
          abortModal, isEnabled, threw>>

historyVars == <<localStorage, ret, added, saved>>

appVars == <<currentPreset, breakModal, abortModal, isEnabled, threw>>

timerVars == <<state, totalSeconds, remainingSeconds, intervalId,
               sessionStartTime, isBreak, triggeredWarnings, timers>>

(***************************************************************************)
(* Helpers                                                                 *)
(***************************************************************************)
Max(a, b) == IF a >= b THEN a ELSE b
Min(a, b) == IF a <= b THEN a ELSE b

\* JavaScript's %: the remainder takes the sign of the dividend.
JsRem(a, b) == IF a >= 0 THEN a % b ELSE -((-a) % b)

\* timer.js:28-38.  The three numeric fields; padStart only pads the text.
formatTime(seconds) ==
    [hours   |-> seconds \div 3600,
     minutes |-> JsRem(seconds, 3600) \div 60,
     seconds |-> JsRem(seconds, 60)]

\* The timer as one record, so that functions can call functions.
Cur ==
    [state |-> state, totalSeconds |-> totalSeconds,
     remainingSeconds |-> remainingSeconds, intervalId |-> intervalId,
     sessionStartTime |-> sessionStartTime, isBreak |-> isBreak,
     triggeredWarnings |-> triggeredWarnings, timers |-> timers,
     out |-> <<>>]

Emit(t, type, args) == [t EXCEPT !.out = Append(@, [type |-> type, args |-> args])]

\* onTick(formatTime(remainingSeconds), remainingSeconds)
EmitTick(t) ==
    Emit(t, "tick", <<formatTime(t.remainingSeconds), t.remainingSeconds>>)

\* setInterval(tick, 1000): a new active timer; its id is one no active timer
\* has (the browser never hands out the id of a live timer).
setInterval(t) ==
    LET id == CHOOSE i \in 1..(Cardinality(t.timers) + 1) : i \notin t.timers
    IN  [t EXCEPT !.timers = @ \cup {id}, !.intervalId = id]

\* clearInterval(intervalId); intervalId = null;   clearInterval(null) is a no-op
clearInterval(t) ==
    [t EXCEPT !.timers = @ \ {t.intervalId}, !.intervalId = NULL]


(***************************************************************************)
(* The Timer functions (src/js/timer.js), as record transformers           *)
(***************************************************************************)
\* complete() reporting every interval as a focus session.
completeAsFocus(t, clock) ==
    LET c == clearInterval(t)
        i == [c EXCEPT !.state = "idle", !.isBreak = FALSE]
        e == Emit(i, "complete",
                  [duration  |-> i.totalSeconds,
                   startTime |-> i.sessionStartTime,
                   endTime   |-> clock,
                   completed |-> TRUE,
                   wasBreak  |-> FALSE])
    IN  Emit(e, "stateChange", <<e.state>>)

\* timer.js:65-84
complete(t, clock) ==
    LET c == clearInterval(t)
        wasBreak == c.isBreak
        i == [c EXCEPT !.state = "idle", !.isBreak = FALSE]
        e == Emit(i, "complete",
                  [duration  |-> i.totalSeconds,
                   startTime |-> i.sessionStartTime,
                   endTime   |-> clock,
                   completed |-> TRUE,
                   wasBreak  |-> wasBreak])
    IN  Emit(e, "stateChange", <<e.state>>)

\* timer.js:52-57  one iteration of WARNING_THRESHOLDS.forEach
checkWarning(t, threshold) ==
    IF t.remainingSeconds = threshold /\ threshold \notin t.triggeredWarnings
    THEN Emit([t EXCEPT !.triggeredWarnings = @ \cup {threshold}],
              "warning", <<threshold>>)
    ELSE t

\* tick() with the test for the end written "< 0": it counts past zero.
tickPastZero(t, clock) ==
    IF t.remainingSeconds < 0
    THEN complete(t, clock)
    ELSE LET d  == [t EXCEPT !.remainingSeconds = @ - 1]
             w1 == checkWarning(d, WARNING_THRESHOLDS[1])
             w2 == checkWarning(w1, WARNING_THRESHOLDS[2])
         IN  EmitTick(w2)

\* tick() decrementing before its test for the end.
tickDecrementsFirst(t, clock) ==
    LET d == [t EXCEPT !.remainingSeconds = @ - 1]
    IN  IF d.remainingSeconds <= 0
        THEN complete(d, clock)
        ELSE LET w1 == checkWarning(d, WARNING_THRESHOLDS[1])
                 w2 == checkWarning(w1, WARNING_THRESHOLDS[2])
             IN  EmitTick(w2)

\* tick() that stops the interval timer at zero without completing.
tickStopsAtZero(t, clock) ==
    IF t.remainingSeconds <= 0
    THEN clearInterval(t)
    ELSE LET d  == [t EXCEPT !.remainingSeconds = @ - 1]
             w1 == checkWarning(d, WARNING_THRESHOLDS[1])
             w2 == checkWarning(w1, WARNING_THRESHOLDS[2])
         IN  EmitTick(w2)

\* timer.js:43-60
tick(t, clock) ==
    IF t.remainingSeconds <= 0
    THEN complete(t, clock)
    ELSE LET d  == [t EXCEPT !.remainingSeconds = @ - 1]
             w1 == checkWarning(d, WARNING_THRESHOLDS[1])
             w2 == checkWarning(w1, WARNING_THRESHOLDS[2])
         IN  EmitTick(w2)

\* start() without its first line: a second call creates a second timer.
startNoGuard(t, clock) ==
    LET s == IF t.state = "idle"
             THEN [t EXCEPT !.sessionStartTime = clock,
                            !.triggeredWarnings = {}]
             ELSE t
        r == setInterval([s EXCEPT !.state = "running"])
    IN  Emit(r, "stateChange", <<r.state, r.isBreak>>)

\* start() stamping the session before its test for "running".
startStampsFirst(t, clock) ==
    LET s == IF t.state # "paused"
             THEN [t EXCEPT !.sessionStartTime = clock,
                            !.triggeredWarnings = {}]
             ELSE t
    IN  IF t.state = "running"
        THEN s
        ELSE LET r == setInterval([s EXCEPT !.state = "running"])
             IN  Emit(r, "stateChange", <<r.state, r.isBreak>>)

\* start() passing the state alone to onStateChange.
startOmitsFlag(t, clock) ==
    IF t.state = "running"
    THEN t
    ELSE LET s == IF t.state = "idle"
                  THEN [t EXCEPT !.sessionStartTime = clock,
                                 !.triggeredWarnings = {}]
                  ELSE t
             r == setInterval([s EXCEPT !.state = "running"])
         IN  Emit(r, "stateChange", <<r.state>>)

\* start() stamping the session on every start, a resume included.
startAlwaysStamps(t, clock) ==
    IF t.state = "running"
    THEN t
    ELSE LET s == [t EXCEPT !.sessionStartTime = clock,
                            !.triggeredWarnings = {}]
             r == setInterval([s EXCEPT !.state = "running"])
         IN  Emit(r, "stateChange", <<r.state, r.isBreak>>)

\* timer.js:89-100
start(t, clock) ==
    IF t.state = "running"
    THEN t
    ELSE LET s == IF t.state = "idle"
                  THEN [t EXCEPT !.sessionStartTime = clock,
                                 !.triggeredWarnings = {}]
                  ELSE t
             r == setInterval([s EXCEPT !.state = "running"])
         IN  Emit(r, "stateChange", <<r.state, r.isBreak>>)

\* pause() without its test for "running".
pauseFromAny(t) ==
    LET p == clearInterval([t EXCEPT !.state = "paused"])
    IN  Emit(p, "stateChange", <<p.state>>)

\* timer.js:105-112
pause(t) ==
    IF t.state # "running"
    THEN t
    ELSE LET p == clearInterval([t EXCEPT !.state = "paused"])
         IN  Emit(p, "stateChange", <<p.state>>)

\* toggle() starting from Idle only.
toggleStartsFromIdle(t, clock) ==
    IF t.state = "idle" THEN start(t, clock) ELSE pause(t)

\* timer.js:117-123
toggle(t, clock) ==
    IF t.state = "running" THEN pause(t) ELSE start(t, clock)

\* reset() with its two callbacks in the other order.
resetStateFirst(t) ==
    LET c == clearInterval(t)
        r == [c EXCEPT !.state = "idle",
                       !.remainingSeconds = c.totalSeconds,
                       !.isBreak = FALSE,
                       !.triggeredWarnings = {}]
    IN  EmitTick(Emit(r, "stateChange", <<r.state>>))

\* reset() without triggeredWarnings.clear().
resetKeepsWarnings(t) ==
    LET c == clearInterval(t)
        r == [c EXCEPT !.state = "idle",
                       !.remainingSeconds = c.totalSeconds,
                       !.isBreak = FALSE]
    IN  Emit(EmitTick(r), "stateChange", <<r.state>>)

\* reset() without "isBreak = false".
resetKeepsBreak(t) ==
    LET c == clearInterval(t)
        r == [c EXCEPT !.state = "idle",
                       !.remainingSeconds = c.totalSeconds,
                       !.triggeredWarnings = {}]
    IN  Emit(EmitTick(r), "stateChange", <<r.state>>)

\* timer.js:128-137
reset(t) ==
    LET c == clearInterval(t)
        r == [c EXCEPT !.state = "idle",
                       !.remainingSeconds = c.totalSeconds,
                       !.isBreak = FALSE,
                       !.triggeredWarnings = {}]
    IN  Emit(EmitTick(r), "stateChange", <<r.state>>)

\* abort() with the threshold test written ">= 60".
abortLogsFromSixty(t, clock) ==
    LET duration  == t.totalSeconds - t.remainingSeconds
        startTime == t.sessionStartTime
        c == clearInterval(t)
        r == [c EXCEPT !.state = "idle",
                       !.remainingSeconds = c.totalSeconds,
                       !.isBreak = FALSE,
                       !.triggeredWarnings = {}]
        l == IF duration >= ABORT_LOG_THRESHOLD
             THEN Emit(r, "complete",
                       [duration  |-> duration,
                        startTime |-> startTime,
                        endTime   |-> clock,
                        completed |-> FALSE,
                        wasBreak  |-> FALSE])
             ELSE r
    IN  Emit(EmitTick(l), "stateChange", <<l.state>>)

\* timer.js:142-166
abort(t, clock) ==
    LET duration  == t.totalSeconds - t.remainingSeconds
        startTime == t.sessionStartTime
        c == clearInterval(t)
        r == [c EXCEPT !.state = "idle",
                       !.remainingSeconds = c.totalSeconds,
                       !.isBreak = FALSE,
                       !.triggeredWarnings = {}]
        l == IF duration > ABORT_LOG_THRESHOLD
             THEN Emit(r, "complete",
                       [duration  |-> duration,
                        startTime |-> startTime,
                        endTime   |-> clock,
                        completed |-> FALSE,
                        wasBreak  |-> FALSE])
             ELSE r
    IN  Emit(EmitTick(l), "stateChange", <<l.state>>)

\* The clamp without its lower bound.
clampNoFloor(seconds) == Min(seconds, MAX_SECONDS)

\* timer.js:174  Math.max(60, Math.min(seconds, 43200))
clamp(seconds) == Max(MIN_SECONDS, Min(seconds, MAX_SECONDS))

\* setTime() without its first line: it also acts while running.
setTimeNoGuard(t, seconds) ==
    EmitTick([t EXCEPT !.totalSeconds = clamp(seconds),
                       !.remainingSeconds = clamp(seconds)])

\* timer.js:171-177
setTime(t, seconds) ==
    IF t.state = "running"
    THEN t
    ELSE EmitTick([t EXCEPT !.totalSeconds = clamp(seconds),
                            !.remainingSeconds = clamp(seconds)])

\* adjustTime() adding the step to the time that remains.
adjustTimeFromRemaining(t, delta) ==
    IF t.state = "running"
    THEN t
    ELSE setTime(t, t.remainingSeconds + delta)

\* timer.js:182-187
adjustTime(t, delta) ==
    IF t.state = "running"
    THEN t
    ELSE setTime(t, t.totalSeconds + delta)

\* timer.js:192-200
startBreak(t, breakSeconds, clock) ==
    LET b == [t EXCEPT !.totalSeconds = breakSeconds,
                       !.remainingSeconds = breakSeconds,
                       !.isBreak = TRUE,
                       !.sessionStartTime = clock,
                       !.triggeredWarnings = {}]
    IN  start(EmitTick(b), clock)

(***************************************************************************)
(* Observation of sessions                                                 *)
(*                                                                         *)
(* A session begins when start() or toggle() leaves Idle, or with          *)
(* startBreak(), and is in progress until the timer is Idle again.         *)
(*   fresh  the session began with remainingSeconds = totalSeconds         *)
(*   ops    "ticksOnly": nothing but ticks since it began;                 *)
(*          "calls": other calls, none of which changed the configured     *)
(*          time; "retimed": setTime/adjustTime took effect during it;     *)
(*          "none": no session in progress                                 *)
(*   ticks  tick callbacks since it began (each decremented                *)
(*          remainingSeconds: the one that does not ends the session)      *)
(*   warn   warning events per threshold since it began                    *)
(*   done   completion events since the last session began                 *)
(***************************************************************************)
NoWarnings == [th \in Thresholds |-> 0]

NoSession == [fresh |-> FALSE, ops |-> "none", ticks |-> 0,
              warn |-> NoWarnings, done |-> 0]

\* Number of events of a type (and, for warnings, of a threshold) in a log.
Count(log, type) == Cardinality({i \in DOMAIN log : log[i].type = type})

CountWarning(log, th) ==
    Cardinality({i \in DOMAIN log : log[i].type = "warning" /\ log[i].args = <<th>>})

BeginsSession(op) ==
    \/ op = "startBreak"
    \/ op \in {"start", "toggle"} /\ state = "idle"

nextSess(op, r) ==
    IF BeginsSession(op)
    THEN [fresh |-> r.remainingSeconds = r.totalSeconds, ops |-> "ticksOnly",
          ticks |-> 0, warn |-> NoWarnings, done |-> 0]
    ELSE LET done == sess.done + Count(r.out, "complete") IN
         IF r.state = "idle"
         THEN [NoSession EXCEPT !.done = done]
         ELSE [fresh |-> sess.fresh,
               ops   |-> IF op = "tick" THEN sess.ops
                         ELSE IF op \in {"setTime", "adjustTime"} /\ state # "running"
                              THEN "retimed"
                         ELSE IF sess.ops = "ticksOnly" THEN "calls"
                         ELSE sess.ops,
               ticks |-> IF op = "tick" THEN sess.ticks + 1 ELSE sess.ticks,
               warn  |-> [th \in Thresholds |->
                             sess.warn[th] + CountWarning(r.out, th)],
               done  |-> done]

(***************************************************************************)
(* The History functions (src/unnamed/part_000)                            *)
(*                                                                         *)
(* A function takes the localStorage it runs against, the clock value it   *)
(* reads with Date.now() / new Date(), and whether the storage read and    *)
(* write it performs succeed (false: the call throws into the catch).      *)
(* A Date is its number of milliseconds.  An ISO string is the pair of its *)
(* date part (the text before 'T', held as the day number: the strings     *)
(* YYYY-MM-DD compare and sort as the day numbers do) and its time part.   *)
(***************************************************************************)
\* Date.prototype.toISOString (UTC)
toISOString(ms) == [date |-> ms \div MS_PER_DAY, time |-> ms % MS_PER_DAY]

\* iso.split('T')[0]
DatePart(iso) == iso.date

\* iso.startsWith(dateString)
startsWith(iso, dateString) == DatePart(iso) = dateString

\* JSON.stringify / JSON.parse of an array of session records
JSONstringify(value) == [json |-> value]

JSONparse(text) == text.json

\* localStorage.getItem of a key that was never set returns null
NoItem == [present |-> FALSE, data |-> JSONstringify(<<>>)]

StorageKeys == {STORAGE_KEY, SETTINGS_KEY}

EmptyStorage == [k \in StorageKeys |-> NoItem]

\* part_000:12-20
getSessions(ls, readOk) ==
    IF ~readOk
    THEN <<>>
    ELSE LET item == ls[STORAGE_KEY]
         IN  IF item.present THEN JSONparse(item.data) ELSE <<>>

\* part_000:25-31
saveSessions(ls, sessions, writeOk) ==
    IF writeOk
    THEN [ls EXCEPT ![STORAGE_KEY] =
                 [present |-> TRUE, data |-> JSONstringify(sessions)]]
    ELSE ls

\* addSession() without the limit on the number of records.
addSessionNoLimit(ls, sessionData, clock, readOk, writeOk) ==
    LET sessions == getSessions(ls, readOk)
        session == [id |-> clock,
                    startTime |-> toISOString(sessionData.startTime),
                    endTime |-> toISOString(sessionData.endTime),
                    duration |-> sessionData.duration,
                    completed |-> sessionData.completed,
                    wasBreak |-> sessionData.wasBreak \/ FALSE]
        unshifted == <<session>> \o sessions
    IN  [ls |-> saveSessions(ls, unshifted, writeOk), session |-> session]

\* part_000:36-57  the storage it leaves and the record it returns
addSession(ls, sessionData, clock, readOk, writeOk) ==
    LET sessions == getSessions(ls, readOk)
        session == [id |-> clock,
                    startTime |-> toISOString(sessionData.startTime),
                    endTime |-> toISOString(sessionData.endTime),
                    duration |-> sessionData.duration,
                    completed |-> sessionData.completed,
                    wasBreak |-> sessionData.wasBreak \/ FALSE]
        unshifted == <<session>> \o sessions
        kept == IF Len(unshifted) > MAX_SESSIONS
                THEN SubSeq(unshifted, 1, Len(unshifted) - 1)
                ELSE unshifted
    IN  [ls |-> saveSessions(ls, kept, writeOk), session |-> session]

\* part_000:62-64
getTodayString(clock) == DatePart(toISOString(clock))

\* part_000:69-74
getTodaySessions(ls, clock, readOk) ==
    LET today == getTodayString(clock)
    IN  SelectSeq(getSessions(ls, readOk),
                  LAMBDA s : startsWith(s.startTime, today) /\ ~s.wasBreak)

\* sessions.reduce((sum, s) => sum + s.duration, 0)
RECURSIVE SumDuration(_)
SumDuration(sessions) ==
    IF sessions = <<>>
    THEN 0
    ELSE Head(sessions).duration + SumDuration(Tail(sessions))

\* part_000:79-83
getTodayTotal(ls, clock, readOk) ==
    SumDuration(SelectSeq(getTodaySessions(ls, clock, readOk),
                          LAMBDA s : s.completed))

\* part_000:88-96  `${hours}h ${minutes}m` or `${minutes}m`, as the numbers
formatDuration(seconds) ==
    LET hours == seconds \div SECONDS_PER_HOUR
        minutes == (seconds % SECONDS_PER_HOUR) \div SECONDS_PER_MINUTE
    IN  IF hours > 0 THEN <<hours, minutes>> ELSE <<minutes>>

\* part_000:137-145  the loop that walks back from checkDate
RECURSIVE StreakLoop(_, _, _)
StreakLoop(dates, checkDate, streak) ==
    IF DatePart(toISOString(checkDate)) \in dates
    THEN StreakLoop(dates, checkDate - MS_PER_DAY, streak + 1)
    ELSE streak

\* getStreak() counting every focus session, completed or not.
getStreakAnySession(ls, clock, readOk) ==
    LET sessions == SelectSeq(getSessions(ls, readOk),
                              LAMBDA s : ~s.wasBreak)
        dates == {DatePart(sessions[i].startTime) : i \in DOMAIN sessions}
        today == getTodayString(clock)
        yesterday == DatePart(toISOString(clock - MS_PER_DAY))
    IN  IF Len(sessions) = 0
        THEN 0
        ELSE IF today \notin dates /\ yesterday \notin dates
        THEN 0
        ELSE StreakLoop(dates,
                        IF today \notin dates THEN clock - MS_PER_DAY
                                              ELSE clock,
                        0)

\* part_000:108-148
getStreak(ls, clock, readOk) ==
    LET sessions == SelectSeq(getSessions(ls, readOk),
                              LAMBDA s : s.completed /\ ~s.wasBreak)
        dates == {DatePart(sessions[i].startTime) : i \in DOMAIN sessions}
        today == getTodayString(clock)
        yesterday == DatePart(toISOString(clock - MS_PER_DAY))
    IN  IF Len(sessions) = 0
        THEN 0
        ELSE IF today \notin dates /\ yesterday \notin dates
        THEN 0
        ELSE StreakLoop(dates,
                        IF today \notin dates THEN clock - MS_PER_DAY
                                              ELSE clock,
                        0)

\* part_000:153-166
getStats(ls, clock, readOk) ==
    LET sessions == getSessions(ls, readOk)
        focusSessions == SelectSeq(sessions, LAMBDA s : ~s.wasBreak)
    IN  [todayTotal |-> getTodayTotal(ls, clock, readOk),
         todayFormatted |-> formatDuration(getTodayTotal(ls, clock, readOk)),
         completedCount |->
             Len(SelectSeq(focusSessions, LAMBDA s : s.completed)),
         abortedCount |->
             Len(SelectSeq(focusSessions, LAMBDA s : ~s.completed)),
         streak |-> getStreak(ls, clock, readOk),
         totalTime |-> SumDuration(focusSessions),
         totalTimeFormatted |-> formatDuration(SumDuration(focusSessions))]

\* An object with no property: {}
EmptyObject == [k \in {} |-> FALSE]

\* part_000:239-246
getSettings(ls, readOk) ==
    IF ~readOk
    THEN EmptyObject
    ELSE LET item == ls[SETTINGS_KEY]
         IN  IF item.present THEN JSONparse(item.data) ELSE EmptyObject

\* settings[key] = value
SetProperty(object, key, value) ==
    [k \in DOMAIN object \cup {key} |-> IF k = key THEN value ELSE object[k]]

\* saveSetting() that stores the one setting alone.
saveSettingAlone(ls, key, value, readOk, writeOk) ==
    IF writeOk
    THEN [ls EXCEPT ![SETTINGS_KEY] =
                 [present |-> TRUE,
                  data |-> JSONstringify(SetProperty(EmptyObject, key, value))]]
    ELSE ls

\* part_000:226-234
saveSetting(ls, key, value, readOk, writeOk) ==
    LET settings == SetProperty(getSettings(ls, readOk), key, value)
    IN  IF writeOk
        THEN [ls EXCEPT ![SETTINGS_KEY] =
                     [present |-> TRUE, data |-> JSONstringify(settings)]]
        ELSE ls

\* part_000:251-254
getSetting(ls, key, defaultValue, readOk) ==
    LET settings == getSettings(ls, readOk)
    IN  IF key \in DOMAIN settings THEN settings[key] ELSE defaultValue

\* new Date(isoString)
ParseDate(iso) == iso.date * MS_PER_DAY + iso.time

\* date.toLocaleTimeString('en-US', {hour, minute}): the minute of the day
toLocaleTimeString(date) ==
    (date % MS_PER_DAY) \div (SECONDS_PER_MINUTE * 1000)

\* part_000:185-214
formatDate(date, clock) ==
    LET today == getTodayString(clock)
        dateStr == DatePart(toISOString(date))
        yesterday == DatePart(toISOString(clock - MS_PER_DAY))
    IN  IF dateStr = today
        THEN <<"Today", toLocaleTimeString(date)>>
        ELSE IF dateStr = yesterday
        THEN <<"Yesterday", toLocaleTimeString(date)>>
        ELSE <<"Date", dateStr, toLocaleTimeString(date)>>

\* part_000:171-180
getRecentSessions(ls, limit, clock, readOk) ==
    LET focus == SelectSeq(getSessions(ls, readOk), LAMBDA s : ~s.wasBreak)
        sliced == SubSeq(focus, 1, Min(limit, Len(focus)))
    IN  [i \in 1 .. Len(sliced) |->
            [id |-> sliced[i].id,
             startTime |-> sliced[i].startTime,
             endTime |-> sliced[i].endTime,
             duration |-> sliced[i].duration,
             completed |-> sliced[i].completed,
             wasBreak |-> sliced[i].wasBreak,
             durationFormatted |-> formatDuration(sliced[i].duration),
             dateFormatted |->
                 formatDate(ParseDate(sliced[i].startTime), clock)]]

(***************************************************************************)
(* Exceptions: whether a call of a History function ends in one, given     *)
(* whether the storage read and write it performs succeed.                 *)
(***************************************************************************)
\* try { ... } catch (e) { ... }: an exception raised in the block leaves
\* the statement only if the catch clause throws again.
TryCatch(raised, rethrows) == raised /\ rethrows

\* part_000:13-19  getItem and JSON.parse run inside the try; the catch logs
getSessionsThrows(readOk) == TryCatch(~readOk, FALSE)

\* saveSessions() whose setItem runs outside any try.
saveSessionsNoCatch(writeOk) == ~writeOk

\* part_000:26-30  setItem runs inside the try; the catch logs
saveSessionsThrows(writeOk) == TryCatch(~writeOk, FALSE)

\* part_000:36-57
addSessionThrows(readOk, writeOk) ==
    getSessionsThrows(readOk) \/ saveSessionsThrows(writeOk)

\* part_000:153-166  getSessions, getTodayTotal and getStreak all read
getStatsThrows(readOk) == getSessionsThrows(readOk)

\* part_000:171-180
getRecentSessionsThrows(readOk) == getSessionsThrows(readOk)

\* part_000:240-245
getSettingsThrows(readOk) == TryCatch(~readOk, FALSE)

\* part_000:227-233  getSettings and setItem run inside the try
saveSettingThrows(readOk, writeOk) ==
    TryCatch(getSettingsThrows(readOk) \/ ~writeOk, FALSE)

\* part_000:251-254
getSettingThrows(readOk) == getSettingsThrows(readOk)

\* No History call has returned yet.
NoReturn == [op |-> "none", value |-> 0]

\* The settings saved and their values; none has been saved yet.
SettingKeys == {"muted", "volume"}

SettingValues == BOOLEAN

NothingSaved == [k \in SettingKeys |-> [set |-> FALSE, value |-> FALSE]]

(***************************************************************************)
(* The state machine                                                       *)
(***************************************************************************)
\* timer.js:8-23  the closure's variables after construction
TimerInit ==
    /\ state = "idle"
    /\ totalSeconds = DEFAULT_SECONDS
    /\ remainingSeconds = DEFAULT_SECONDS
    /\ intervalId = NULL
    /\ sessionStartTime = NULL
    /\ isBreak = FALSE
    /\ triggeredWarnings = {}
    /\ timers = {}
    /\ now = 1
    /\ events = <<>>
    /\ lastOp = [op |-> "init", arg |-> 0]
    /\ sess = NoSession
    /\ quiet = FALSE

\* app.js:57, part_001:7  the controller after construction: the default
\* preset, no modal dialog shown, the keyboard shortcuts enabled.
AppInit ==
    /\ currentPreset = DEFAULT_SECONDS
    /\ breakModal = FALSE
    /\ abortModal = FALSE
    /\ isEnabled = TRUE
    /\ threw = FALSE

\* The timer after construction, and a browser that stores nothing yet.
Init ==
    /\ TimerInit
    /\ AppInit
    /\ localStorage = EmptyStorage
    /\ ret = NoReturn
    /\ added = <<>>
    /\ saved = NothingSaved

\* One call of a Timer function: r is the timer it leaves behind.
Apply(op, arg, r) ==
    /\ state' = r.state
    /\ totalSeconds' = r.totalSeconds
    /\ remainingSeconds' = r.remainingSeconds
    /\ intervalId' = r.intervalId
    /\ sessionStartTime' = r.sessionStartTime
    /\ isBreak' = r.isBreak
    /\ triggeredWarnings' = r.triggeredWarnings
    /\ timers' = r.timers
    /\ events' = r.out
    /\ lastOp' = [op |-> op, arg |-> arg]
    /\ sess' = nextSess(op, r)
    /\ now' = now
    /\ UNCHANGED <<appVars, historyVars, quiet>>

Start  == Apply("start", 0, start(Cur, now))
Pause  == Apply("pause", 0, pause(Cur))
Toggle == Apply("toggle", 0, toggle(Cur, now))
Reset  == Apply("reset", 0, reset(Cur))
Abort  == Apply("abort", 0, abort(Cur, now))

\* setTime and adjustTime are tried on a paused session early in it only.
RetimeInBounds == state = "paused" => sess.ticks <= MaxRetimeTicks

SetTime(seconds) ==
    /\ RetimeInBounds
    /\ Apply("setTime", seconds, setTime(Cur, seconds))

\* The configured durations the model follows: what setTime can produce
\* (adjustTime is tried with the steps that lead to one of them).
Durations == {clamp(s) : s \in SetTimeArgs}

AdjustTime(delta) ==
    /\ RetimeInBounds
    /\ state = "running" \/ clamp(totalSeconds + delta) \in Durations
    /\ Apply("adjustTime", delta, adjustTime(Cur, delta))

StartBreak(breakSeconds) ==
    Apply("startBreak", breakSeconds, startBreak(Cur, breakSeconds, now))

\* The interval timer `id` fires: the browser calls tick().
Tick(id) ==
    /\ id \in timers
    /\ totalSeconds - remainingSeconds < MaxElapsed
    /\ Apply("tick", id, tick(Cur, now))

\* Time passes.
ClockAdvance ==
    /\ now < MaxNow
    /\ now' = now + 1
    /\ events' = <<>>
    /\ lastOp' = [op |-> "clock", arg |-> 0]
    /\ UNCHANGED <<appVars, timerVars, sess, historyVars, quiet>>

\* Every step except startBreak.
Calls ==
    \/ Start
    \/ Pause
    \/ Toggle
    \/ Reset
    \/ Abort
    \/ \E seconds \in SetTimeArgs : SetTime(seconds)
    \/ \E delta \in AdjustArgs : AdjustTime(delta)
    \/ \E id \in timers : Tick(id)
    \/ ClockAdvance

Next == Calls \/ \E b \in BreakArgs : StartBreak(b)

Spec == Init /\ [][Next]_vars

\* The same machine with startBreak given non-negative durations only.
NonNegBreakArgs == {b \in BreakArgs : b >= 0}

NextNonNeg == Calls \/ \E b \in NonNegBreakArgs : StartBreak(b)

SpecNonNeg == Init /\ [][NextNonNeg]_vars

(***************************************************************************)
(* The timer left to run: after some calls the user stops acting           *)
(***************************************************************************)
\* The user stops acting while the timer runs.
UserLeaves ==
    /\ ~quiet
    /\ state = "running"
    /\ quiet' = TRUE
    /\ events' = <<>>
    /\ lastOp' = [op |-> "leave", arg |-> 0]
    /\ UNCHANGED <<appVars, timerVars, now, sess, historyVars>>

\* The intervals followed to their end: those short enough to be ticked
\* through.
Followed == totalSeconds < MaxElapsed

\* Calls while the user acts (a timer is set running only for an interval
\* that is followed to its end); then ticks, and the clock, alone.
NextLive ==
    \/ ~quiet /\ Next /\ (state' = "running" => Followed')
    \/ UserLeaves
    \/ quiet /\ \E id \in timers : Tick(id)
    \/ quiet /\ ClockAdvance

\* An interval timer that is active keeps firing (setInterval, timer.js:98).
SpecLive ==
    /\ Init
    /\ [][NextLive]_vars
    /\ WF_vars(quiet /\ \E id \in timers : Tick(id))

(***************************************************************************)
(* The history: calls of History on a storage that does not fail           *)
(***************************************************************************)
\* History.addSession(sessionData)
AddSession(sessionData) ==
    LET r == addSession(localStorage, sessionData, now, TRUE, TRUE)
    IN  /\ localStorage' = r.ls
        /\ ret' = [op |-> "addSession", value |-> r.session]
        /\ added' = <<r.session>> \o added
        /\ UNCHANGED <<appVars, timerVars, now, events, lastOp, sess, quiet,
                       saved>>

\* History.getStats()
GetStats ==
    /\ ret' = [op |-> "getStats", value |-> getStats(localStorage, now, TRUE)]
    /\ UNCHANGED <<appVars, timerVars, now, events, lastOp, sess, localStorage,
                   added, quiet, saved>>

\* History.getStreak()
GetStreak ==
    /\ ret' = [op |-> "getStreak",
               value |-> getStreak(localStorage, now, TRUE)]
    /\ UNCHANGED <<appVars, timerVars, now, events, lastOp, sess, localStorage,
                   added, quiet, saved>>

\* Half a day passes.
ClockStep == MS_PER_DAY \div 2

HalfDayPasses ==
    /\ now + ClockStep <= 1 + MaxDays * MS_PER_DAY + ClockStep
    /\ now' = now + ClockStep
    /\ ret' = NoReturn
    /\ UNCHANGED <<appVars, timerVars, events, lastOp, sess, localStorage,
                   added, quiet, saved>>

\* The session data handed to addSession at a clock value: a completed focus
\* session of an hour that began just now or half a day ago, a focus session
\* aborted after 61 s, a completed break of five minutes.
SessionArgs(clock) ==
    {[startTime |-> clock, endTime |-> clock, duration |-> 3600,
      completed |-> TRUE, wasBreak |-> FALSE],
     [startTime |-> clock - ClockStep, endTime |-> clock, duration |-> 3600,
      completed |-> TRUE, wasBreak |-> FALSE],
     [startTime |-> clock, endTime |-> clock, duration |-> 61,
      completed |-> FALSE, wasBreak |-> FALSE],
     [startTime |-> clock, endTime |-> clock, duration |-> 300,
      completed |-> TRUE, wasBreak |-> TRUE]}

\* A short history, added to and queried as the days pass.
NextHistory ==
    \/ Len(added) < MaxAdds /\ \E d \in SessionArgs(now) : AddSession(d)
    \/ GetStats
    \/ GetStreak
    \/ HalfDayPasses

SpecHistory == Init /\ [][NextHistory]_vars

\* History.saveSetting(key, value)
SaveSetting(key, value) ==
    /\ localStorage' = saveSetting(localStorage, key, value, TRUE, TRUE)
    /\ saved' = [saved EXCEPT ![key] = [set |-> TRUE, value |-> value]]
    /\ ret' = [op |-> "saveSetting", value |-> 0]
    /\ UNCHANGED <<appVars, timerVars, now, events, lastOp, sess, added,
                   quiet>>

\* History.getSetting(key, defaultValue)
GetSetting(key, defaultValue) ==
    /\ ret' = [op |-> "getSetting",
               value |-> [key |-> key, default |-> defaultValue,
                          result |-> getSetting(localStorage, key,
                                                defaultValue, TRUE)]]
    /\ UNCHANGED <<appVars, timerVars, now, events, lastOp, sess, localStorage,
                   added, quiet, saved>>

\* Settings saved and read while sessions are added.
NextSettings ==
    \/ \E k \in SettingKeys : \E v \in SettingValues : SaveSetting(k, v)
    \/ \E k \in SettingKeys : \E d \in SettingValues : GetSetting(k, d)
    \/ Len(added) < MaxAdds /\ \E d \in SessionArgs(now) : AddSession(d)

SpecSettings == Init /\ [][NextSettings]_vars

\* A long history.  It begins empty, or as n calls of addSession with one and
\* the same session leave it, one short of the limit; it then receives any
\* sessions, as time passes.
FillSession ==
    [startTime |-> 1, endTime |-> 1, duration |-> 7200,
     completed |-> TRUE, wasBreak |-> FALSE]

\* The storage after n calls of addSession(FillSession) in a row: the first
\* half of the calls, then, on what they stored, the rest.
RECURSIVE AfterAdds(_, _)
AfterAdds(ls, n) ==
    IF n = 0
    THEN ls
    ELSE IF n = 1
    THEN addSession(ls, FillSession, 1, TRUE, TRUE).ls
    ELSE LET half == AfterAdds(ls, n \div 2)
         IN  IF half[STORAGE_KEY].present
             THEN AfterAdds(half, n - n \div 2)
             ELSE half

FillStarts == {0, MAX_SESSIONS - 1}

InitFill ==
    /\ TimerInit
    /\ AppInit
    /\ ret = NoReturn
    /\ saved = NothingSaved
    /\ \E n \in FillStarts :
          /\ localStorage = AfterAdds(EmptyStorage, n)
          /\ added = [i \in 1 .. n |->
                         addSession(EmptyStorage, FillSession, 1,
                                    TRUE, TRUE).session]

NextFill ==
    \/ /\ \E n \in FillStarts : Len(added) - n \in 0 .. MaxOverfill
       /\ \E d \in SessionArgs(now) : AddSession(d)
    \/ ClockAdvance

SpecFill == InitFill /\ [][NextFill]_vars

(***************************************************************************)
(* The controller (src/js/app.js) on a storage that may fail               *)
(*                                                                         *)
(* A handler of the controller takes and leaves the whole application: the *)
(* timer t, the storage ls, the controller's own variables, the records    *)
(* created on the way (log, newest first) and whether it ended in an       *)
(* exception.  What a handler only draws or plays is left out.             *)
(***************************************************************************)
CurApp ==
    [t |-> Cur, ls |-> localStorage, currentPreset |-> currentPreset,
     breakModal |-> breakModal, abortModal |-> abortModal,
     isEnabled |-> isEnabled, log |-> <<>>, threw |-> FALSE]

\* app.js:367-372  History.getStats(), then the numbers are drawn
updateStats(a, readOk) == [a EXCEPT !.threw = getStatsThrows(readOk)]

\* app.js:465-473 with part_001:75-77
showBreakModal(a) == [a EXCEPT !.breakModal = TRUE, !.isEnabled = FALSE]

\* app.js:479-482 with part_001:68-70
hideBreakModal(a) == [a EXCEPT !.breakModal = FALSE, !.isEnabled = TRUE]

\* app.js:319-338
handleComplete(a, sessionData, clock, readOk, writeOk) ==
    IF sessionData.wasBreak
    THEN updateStats([a EXCEPT !.t = setTime(a.t, a.currentPreset)], readOk)
    ELSE IF addSessionThrows(readOk, writeOk)
    THEN [a EXCEPT !.threw = TRUE]
    ELSE LET r == addSession(a.ls, sessionData, clock, readOk, writeOk)
             b == updateStats([a EXCEPT !.ls = r.ls,
                                        !.log = <<r.session>> \o @],
                              readOk)
         IN  IF b.threw
             THEN b
             ELSE IF sessionData.completed THEN showBreakModal(b) ELSE b

\* The position of the first event of a type in a log, 0 if there is none.
IndexOf(log, type) ==
    IF \E i \in DOMAIN log : log[i].type = type
    THEN CHOOSE i \in DOMAIN log :
            /\ log[i].type = type
            /\ \A j \in 1 .. i - 1 : log[j].type # type
    ELSE 0

\* A Timer function called with App.handleComplete installed as onComplete
\* (app.js:71): r is the timer the function leaves and the callbacks it
\* invokes.  The handler runs when onComplete is invoked, on the timer as it
\* is then (after onComplete the function assigns nothing more); what the
\* function invokes afterwards follows only if the handler returns.
WithHandler(a, r, clock, readOk, writeOk) ==
    LET k == IndexOf(r.out, "complete")
    IN  IF k = 0
        THEN [a EXCEPT !.t = r]
        ELSE LET h == handleComplete(
                          [a EXCEPT !.t = [r EXCEPT !.out = SubSeq(@, 1, k)]],
                          r.out[k].args, clock, readOk, writeOk)
             IN  IF h.threw
                 THEN h
                 ELSE [h EXCEPT !.t.out = @ \o SubSeq(r.out, k + 1, Len(r.out))]

\* One step of the application: a is the application it leaves behind.
ApplyApp(op, arg, a) ==
    /\ state' = a.t.state
    /\ totalSeconds' = a.t.totalSeconds
    /\ remainingSeconds' = a.t.remainingSeconds
    /\ intervalId' = a.t.intervalId
    /\ sessionStartTime' = a.t.sessionStartTime
    /\ isBreak' = a.t.isBreak
    /\ triggeredWarnings' = a.t.triggeredWarnings
    /\ timers' = a.t.timers
    /\ events' = a.t.out
    /\ lastOp' = [op |-> op, arg |-> arg]
    /\ sess' = nextSess(op, a.t)
    /\ localStorage' = a.ls
    /\ added' = a.log \o added
    /\ ret' = NoReturn
    /\ currentPreset' = a.currentPreset
    /\ breakModal' = a.breakModal
    /\ abortModal' = a.abortModal
    /\ isEnabled' = a.isEnabled
    /\ threw' = a.threw
    /\ UNCHANGED <<now, quiet, saved>>

\* No dialog covers the page.
NoModal == ~breakModal /\ ~abortModal

\* The interval timer `id` fires: the browser calls tick(), which calls the
\* controller's handlers.
AppTick(id, readOk, writeOk) ==
    /\ id \in timers
    /\ ApplyApp("tick", id,
                WithHandler(CurApp, tick(Cur, now), now, readOk, writeOk))

\* app.js:103-106  a click on the start / pause button
ClickStart ==
    /\ NoModal
    /\ ApplyApp("toggle", 0, [CurApp EXCEPT !.t = toggle(Cur, now)])

\* app.js:130-139  a click on an adjust button
AdjustSteps == {-900}

ClickAdjust(adjust) ==
    LET r == adjustTime(Cur, adjust)
    IN  /\ NoModal
        /\ ApplyApp("adjustTime", adjust,
                    [CurApp EXCEPT !.t = r, !.currentPreset = r.totalSeconds])

\* app.js:156-164, 457-460  a click on the short or the long break button
BreakChoices == {300, 900}

ClickBreak(seconds) ==
    /\ breakModal
    /\ ApplyApp("startBreak", seconds,
                [hideBreakModal(CurApp) EXCEPT
                    !.t = startBreak(Cur, seconds, now)])

\* app.js:166-169  a click on the skip button
ClickSkipBreak ==
    /\ breakModal
    /\ ApplyApp("setTime", currentPreset,
                [hideBreakModal(CurApp) EXCEPT
                    !.t = setTime(Cur, currentPreset)])

\* One call of a History function from outside a timer callback.
Returns(op, value, ls, log, settings, didThrow) ==
    /\ lastOp' = [op |-> op, arg |-> 0]
    /\ events' = <<>>
    /\ ret' = [op |-> op, value |-> value]
    /\ localStorage' = ls
    /\ added' = log \o added
    /\ saved' = settings
    /\ threw' = didThrow
    /\ UNCHANGED <<timerVars, now, sess, quiet, currentPreset, breakModal,
                   abortModal, isEnabled>>

\* History.getStats()
CallGetStats(readOk) ==
    Returns("getStats", getStats(localStorage, now, readOk), localStorage,
            <<>>, saved, getStatsThrows(readOk))

\* History.getRecentSessions(limit)
RECENT_LIMIT == 20

CallGetRecentSessions(limit, readOk) ==
    Returns("getRecentSessions",
            getRecentSessions(localStorage, limit, now, readOk),
            localStorage, <<>>, saved, getRecentSessionsThrows(readOk))

\* History.getSetting('muted', defaultValue)
CallGetSetting(key, defaultValue, readOk) ==
    Returns("getSetting",
            [key |-> key, default |-> defaultValue,
             result |-> getSetting(localStorage, key, defaultValue, readOk)],
            localStorage, <<>>, saved, getSettingThrows(readOk))

\* History.saveSetting('muted', value)
CallSaveSetting(key, value, readOk, writeOk) ==
    Returns("saveSetting", 0,
            saveSetting(localStorage, key, value, readOk, writeOk), <<>>,
            IF writeOk
            THEN [saved EXCEPT ![key] = [set |-> TRUE, value |-> value]]
            ELSE saved,
            saveSettingThrows(readOk, writeOk))

\* The values getRecentSessions is called with: one record, and the twenty
\* the controller asks for (app.js:415).
RecentLimits == {1, RECENT_LIMIT}

\* The application in use: sessions short enough to be followed to their end
\* are run, paused and completed, breaks taken or skipped, and the history
\* and the settings read and written while the timer is idle; any storage
\* read or write may fail.  The wall clock stands still.
NextApp ==
    \/ \E id \in timers : \E readOk \in BOOLEAN : \E writeOk \in BOOLEAN :
          AppTick(id, readOk, writeOk)
    \/ Followed /\ Len(added) < MaxSessions /\ ClickStart
    \/ RetimeInBounds /\ \E adjust \in AdjustSteps : ClickAdjust(adjust)
    \/ \E seconds \in BreakChoices :
          seconds < MaxElapsed /\ ClickBreak(seconds)
    \/ ClickSkipBreak
    \/ state = "idle" /\ \E readOk \in BOOLEAN : CallGetStats(readOk)
    \/ /\ state = "idle"
       /\ \E limit \in RecentLimits : \E readOk \in BOOLEAN :
             CallGetRecentSessions(limit, readOk)
    \/ /\ state = "idle"
       /\ \E d \in SettingValues : \E readOk \in BOOLEAN :
             CallGetSetting("muted", d, readOk)
    \/ /\ state = "idle"
       /\ \E v \in SettingValues :
             \E readOk \in BOOLEAN : \E writeOk \in BOOLEAN :
                CallSaveSetting("muted", v, readOk, writeOk)

SpecApp == Init /\ [][NextApp]_vars

(***************************************************************************)
(* The controller in everyday use: every button and every shortcut that    *)
(* reaches the timer, on a storage that does not fail.  A dialog covers    *)
(* the page: the buttons of the page are clicked while no dialog is shown, *)
(* the buttons of a dialog while it is shown (with both shown, those of    *)
(* either).  The history panel and the sound switch, which leave the timer *)
(* alone, are not followed.                                                *)
(***************************************************************************)
\* app.js:486-489 with part_001:75-77
showAbortModal(a) == [a EXCEPT !.abortModal = TRUE, !.isEnabled = FALSE]

\* app.js:495-498 with part_001:68-70
hideAbortModal(a) == [a EXCEPT !.abortModal = FALSE, !.isEnabled = TRUE]

\* app.js:377-384
setPreset(a, seconds) ==
    IF a.t.state = "running"
    THEN a
    ELSE [a EXCEPT !.currentPreset = seconds, !.t = setTime(a.t, seconds)]

\* app.js:103-106, 200-203  Timer.toggle()
onToggle(a, clock) == [a EXCEPT !.t = toggle(a.t, clock)]

\* app.js:109-113, 205-209  Timer.reset(); Timer.setTime(currentPreset)
onReset(a) == [a EXCEPT !.t = setTime(reset(a.t), a.currentPreset)]

\* app.js:130-139, 219-231  Timer.adjustTime(adjust); currentPreset = ...
onAdjust(a, adjust) ==
    LET r == adjustTime(a.t, adjust)
    IN  [a EXCEPT !.t = r, !.currentPreset = r.totalSeconds]

\* app.js:211-217  the abort shortcut
onAbort(a) ==
    IF a.t.state \in {"running", "paused"} THEN showAbortModal(a) ELSE a

\* app.js:172-176  hideAbortModal(); Timer.abort()
onConfirmAbort(a, clock, readOk, writeOk) ==
    WithHandler(hideAbortModal(a), abort(a.t, clock), clock, readOk, writeOk)

\* part_001:10-24  the actions bound to keys that reach the timer
KeyActions ==
    {"toggle", "reset", "abort", "adjustUp", "adjustDown",
     "preset1", "preset2", "preset3", "preset4"}

\* app.js:233-251  the durations of the presets
PresetTime ==
    [preset1 |-> 3600, preset2 |-> 7200, preset3 |-> 14400, preset4 |-> 28800]

\* app.js:199-251  handlers[action](event)
keyHandler(a, action, clock) ==
    CASE action = "toggle" -> onToggle(a, clock)
      [] action = "reset" -> onReset(a)
      [] action = "abort" -> onAbort(a)
      [] action = "adjustUp" -> onAdjust(a, 900)
      [] action = "adjustDown" -> onAdjust(a, -900)
      [] OTHER -> setPreset(a, PresetTime[action])

\* part_001:36-49  a key bound to the action is pressed outside a text field
handleKeyDown(a, action, clock) ==
    IF ~a.isEnabled THEN a ELSE keyHandler(a, action, clock)

\* The Timer function an action of the keyboard calls first.
KeyOp(action) ==
    CASE action = "toggle" -> "toggle"
      [] action = "reset" -> "reset"
      [] action = "abort" -> "showAbortModal"
      [] action \in {"adjustUp", "adjustDown"} -> "adjustTime"
      [] OTHER -> "setTime"

\* The argument of that call.
KeyArg(action) ==
    CASE action = "adjustUp" -> 900
      [] action = "adjustDown" -> -900
      [] action \in DOMAIN PresetTime -> PresetTime[action]
      [] OTHER -> 0

\* A key is pressed.
KeyDown(action) ==
    ApplyApp(IF isEnabled THEN KeyOp(action) ELSE "ignored",
             IF isEnabled THEN KeyArg(action) ELSE 0,
             handleKeyDown(CurApp, action, now))

\* app.js:109-113  a click on the reset button
ClickReset ==
    /\ NoModal
    /\ ApplyApp("reset", 0, onReset(CurApp))

\* app.js:115-118, 292, 309  a click on the abort button, which is shown
\* from the first start until the timer is idle again
ClickAbort ==
    /\ NoModal
    /\ state # "idle"
    /\ ApplyApp("showAbortModal", 0, showAbortModal(CurApp))

\* app.js:121-127  a click on a preset button
ClickPreset(seconds) ==
    /\ NoModal
    /\ ApplyApp("setTime", seconds, setPreset(CurApp, seconds))

\* app.js:172-176  a click on the confirm button of the abort dialog
ClickConfirmAbort ==
    /\ abortModal
    /\ ApplyApp("abort", 0, onConfirmAbort(CurApp, now, TRUE, TRUE))

\* app.js:178-180, 189-193  a click on the cancel button of the abort dialog,
\* or on its background
ClickCancelAbort ==
    /\ abortModal
    /\ ApplyApp("hideAbortModal", 0, hideAbortModal(CurApp))

\* app.js:183-187  a click on the background of the break dialog
ClickBreakBackground ==
    /\ breakModal
    /\ ApplyApp("hideBreakModal", 0, hideBreakModal(CurApp))

\* The timer is not left with an interval longer than those followed.
InFollowed == state # "idle" => totalSeconds <= MaxFollowed

\* An abort is confirmed early in a session, around the time from which it
\* is logged, or at the end of the session.
AbortInBounds ==
    \/ state = "idle"
    \/ totalSeconds - remainingSeconds <= MaxRetimeTicks
    \/ totalSeconds - remainingSeconds - ABORT_LOG_THRESHOLD
           \in 0 .. MaxRetimeTicks
    \/ remainingSeconds <= MaxRetimeTicks

\* A session is begun while fewer than MaxSessions records were created.
MayBegin == state = "idle" => Len(added) < MaxSessions

\* The configured time is changed while the timer is idle or early in a
\* session, and is shortened, never lengthened.
RetimeEarly == state # "idle" => sess.ticks <= MaxRetimeTicks

Shortens == totalSeconds' <= totalSeconds /\ InFollowed'

\* The actions of the keyboard that change the configured time.
RetimeActions == KeyActions \ {"toggle", "reset", "abort"}

NextController ==
    \/ \E id \in timers : AppTick(id, TRUE, TRUE)
    \/ MayBegin /\ ClickStart /\ InFollowed'
    \/ ClickReset
    \/ ClickAbort
    \/ /\ RetimeEarly
       /\ \E seconds \in {PresetTime[k] : k \in DOMAIN PresetTime} :
             ClickPreset(seconds)
       /\ Shortens
    \/ /\ RetimeEarly
       /\ \E adjust \in AdjustSteps : ClickAdjust(adjust)
       /\ Shortens
    \/ \E seconds \in BreakChoices : ClickBreak(seconds) /\ InFollowed'
    \/ ClickSkipBreak
    \/ ClickBreakBackground
    \/ AbortInBounds /\ ClickConfirmAbort
    \/ ClickCancelAbort
    \/ \E action \in KeyActions :
          /\ action = "toggle" => MayBegin
          /\ action \in RetimeActions => RetimeEarly
          /\ KeyDown(action)
          /\ action \in RetimeActions => Shortens
          /\ InFollowed'

SpecController == Init /\ [][NextController]_vars

(***************************************************************************)
(* Vocabulary of the properties                                            *)
(***************************************************************************)
\* The events of one type in a log, in order.
Select(log, type) == SelectSeq(log, LAMBDA e : e.type = type)

\* Every event of type a comes before every event of type b.
Before(log, a, b) ==
    \A i, j \in DOMAIN log : log[i].type = a /\ log[j].type = b => i < j

\* A step that is one firing of an interval timer.
TickStep == \E id \in timers : Tick(id)

\* The stored history (what getSessions reads when storage works).
Stored == getSessions(localStorage, TRUE)

\* The day it is.
Today == now \div MS_PER_DAY

\* A step in which addSession created a record.
AddStep == Len(added') = Len(added) + 1

\* A step that is one call of a public function of Timer.
PublicCall ==
    \/ Start
    \/ Pause
    \/ Toggle
    \/ Reset
    \/ Abort
    \/ \E seconds \in SetTimeArgs : SetTime(seconds)
    \/ \E delta \in AdjustArgs : AdjustTime(delta)
    \/ \E b \in BreakArgs : StartBreak(b)

(***************************************************************************)
(* C1 -- the T-th tick completes the session.                              *)
(***************************************************************************)
\* C1: from Idle with totalSeconds = remainingSeconds = T in [60, 43200],
\* start() and then exactly T ticks with no other operation in between yield
\* exactly one completion event (completed = true, duration = T) and leave
\* the timer Idle.  Stated of the T-th tick: the session is a focus session
\* that began fresh, has seen nothing but T - 1 ticks and no completion
\* event, and the tick that fires now is its T-th.
C1_CompletesAtTthTick ==
    [][ ( /\ state = "running"
          /\ ~isBreak
          /\ sess.fresh
          /\ sess.ops = "ticksOnly"
          /\ totalSeconds >= 60 /\ totalSeconds <= 43200
          /\ sess.ticks = totalSeconds - 1
          /\ TickStep )
        => ( /\ state' = "idle"
             /\ sess.done = 0
             /\ Len(Select(events', "complete")) = 1
             /\ Select(events', "complete")[1].args.completed = TRUE
             /\ Select(events', "complete")[1].args.duration = totalSeconds )
      ]_vars

(***************************************************************************)
(* C2 -- abort logs a fresh session only after more than 60 seconds.       *)
(***************************************************************************)
\* C2: abort() on a fresh session after k elapsed ticks (k < totalSeconds,
\* the configured time not changed in between) emits exactly one completion
\* event, with completed = false and duration = k, when k > 60 and none when
\* k <= 60; either way the timer ends Idle with remainingSeconds =
\* totalSeconds.
C2_AbortThreshold ==
    [][ ( /\ state \in {"running", "paused"}
          /\ sess.fresh
          /\ sess.ops # "retimed"
          /\ sess.ticks < totalSeconds
          /\ Abort )
        => ( /\ state' = "idle"
             /\ remainingSeconds' = totalSeconds'
             /\ sess.done = 0
             /\ IF sess.ticks > 60
                THEN /\ Len(Select(events', "complete")) = 1
                     /\ Select(events', "complete")[1].args.completed = FALSE
                     /\ Select(events', "complete")[1].args.duration = sess.ticks
                ELSE Select(events', "complete") = <<>> )
      ]_vars

\* An abort after exactly 61 ticks has logged a session of 61 seconds.
C2_Witness ==
    /\ lastOp.op = "abort"
    /\ Len(Select(events, "complete")) = 1
    /\ Select(events, "complete")[1].args.duration = 61
    /\ Select(events, "complete")[1].args.completed = FALSE

(***************************************************************************)
(* C3 -- setTime clamps.                                                   *)
(***************************************************************************)
\* C3: when the timer is not Running, setTime(s) sets totalSeconds and
\* remainingSeconds both to min(max(s, 60), 43200) and emits exactly one tick
\* event (setTime never changes the state, so "not Running afterwards" is
\* "not Running before").
C3_SetTimeClamps ==
    (lastOp.op = "setTime" /\ state # "running")
    => /\ totalSeconds = Min(Max(lastOp.arg, 60), 43200)
       /\ remainingSeconds = Min(Max(lastOp.arg, 60), 43200)
       /\ Len(Select(events, "tick")) = 1
       /\ Select(events, "tick")[1].args[2] = remainingSeconds

\* setTime(10) has been clamped up to 60.
C3_Witness ==
    /\ lastOp = [op |-> "setTime", arg |-> 10]
    /\ state # "running"
    /\ totalSeconds = 60
    /\ remainingSeconds = 60

(***************************************************************************)
(* C4 -- totalSeconds stays in [60, 43200].                                *)
(***************************************************************************)
\* C4: in every reachable state, after any sequence of public operations
\* (startBreak with arbitrary integer arguments included) and ticks,
\* 60 <= totalSeconds <= 43200.
C4_TotalInRange == 60 <= totalSeconds /\ totalSeconds <= 43200

(***************************************************************************)
(* C5 -- remainingSeconds stays in [0, totalSeconds].                      *)
(***************************************************************************)
\* C5: in every reachable state, after any sequence of public operations
\* (startBreak given a non-negative duration) and ticks,
\* 0 <= remainingSeconds <= totalSeconds.  Checked under SpecNonNeg.
C5_RemainingInRange == 0 <= remainingSeconds /\ remainingSeconds <= totalSeconds

\* A running session has been ticked down to zero.
C5_Witness ==
    /\ state = "running"
    /\ lastOp.op = "tick"
    /\ remainingSeconds = 0
    /\ totalSeconds > 0

(***************************************************************************)
(* C6 -- each warning fires exactly once per session.                      *)
(***************************************************************************)
\* C6: in a session that starts with totalSeconds above a threshold (300 or
\* 60) and runs to natural completion, pauses and resumes allowed, the
\* warning for that threshold is emitted exactly once, at the tick where
\* remainingSeconds becomes equal to the threshold; this holds of every
\* session, so also of one begun after reset().  Stated of two kinds of
\* step: a tick that emits a warning emits it for the value remainingSeconds
\* now has, and the tick that completes a session (whose configured time was
\* never changed) finds each threshold below totalSeconds warned exactly once.
C6_WarningsOncePerSession ==
    [][ \A th \in {300, 60} :
          /\ ( TickStep /\ Len(SelectSeq(events', LAMBDA e : e.type = "warning"
                                                   /\ e.args = <<th>>)) > 0 )
             => remainingSeconds' = th
          /\ ( /\ state = "running"
               /\ sess.ops \in {"ticksOnly", "calls"}
               /\ totalSeconds > th
               /\ TickStep
               /\ Select(events', "complete") # <<>> )
             => sess.warn[th] = 1
      ]_vars

(***************************************************************************)
(* C7 -- order of the events of one operation.                             *)
(***************************************************************************)
\* C7: within one tick any warning event comes before the tick event; on
\* natural completion the completion event comes before the state-change
\* (Idle) event; on reset the tick event comes before the state-change event;
\* on abort the completion event (if any) comes before the tick event, which
\* comes before the state-change event.
C7_EventOrder ==
    /\ lastOp.op = "tick"
       => /\ Before(events, "warning", "tick")
          /\ Before(events, "complete", "stateChange")
          /\ Select(events, "warning") # <<>> => Select(events, "tick") # <<>>
          /\ Select(events, "complete") # <<>>
             => /\ Len(Select(events, "stateChange")) = 1
                /\ Select(events, "stateChange")[1].args[1] = "idle"
    /\ lastOp.op = "reset"
       => /\ Len(Select(events, "tick")) = 1
          /\ Len(Select(events, "stateChange")) = 1
          /\ Before(events, "tick", "stateChange")
    /\ lastOp.op = "abort"
       => /\ Len(Select(events, "tick")) = 1
          /\ Len(Select(events, "stateChange")) = 1
          /\ Before(events, "complete", "tick")
          /\ Before(events, "tick", "stateChange")

\* An abort that logged the session: completion, tick, state-change.
C7_Witness ==
    /\ lastOp.op = "abort"
    /\ Len(events) = 3
    /\ events[1].type = "complete"

(***************************************************************************)
(* C8 -- one interval timer while Running, none otherwise.                 *)
(***************************************************************************)
\* C8: between operations exactly one repeating tick timer is active if the
\* state is Running (the one intervalId names) and none is active if it is
\* Idle or Paused; so no tick fires while Idle or Paused, and no sequence of
\* calls leaves two tick timers running.
C8_OneTimerIffRunning ==
    IF state = "running"
    THEN Cardinality(timers) = 1 /\ timers = {intervalId}
    ELSE timers = {} /\ intervalId = NULL

\* startBreak has been called on a running timer (its start() emitted no
\* state-change event) and one timer is ticking.
C8_Witness ==
    /\ lastOp.op = "startBreak"
    /\ state = "running"
    /\ Select(events, "stateChange") = <<>>
    /\ Cardinality(timers) = 1

(***************************************************************************)
(* C9 -- setTime and adjustTime are ignored while Running.                 *)
(***************************************************************************)
\* C9: while state = Running, setTime(s) and adjustTime(d) change none of
\* state, totalSeconds, remainingSeconds, isBreak, triggeredWarnings, and
\* emit no event, whatever the argument.
C9_IgnoredWhileRunning ==
    [][ ( /\ state = "running"
          /\ \/ \E seconds \in SetTimeArgs : SetTime(seconds)
             \/ \E delta \in AdjustArgs : AdjustTime(delta) )
        => ( /\ UNCHANGED <<state, totalSeconds, remainingSeconds, isBreak,
                            triggeredWarnings>>
             /\ events' = <<>> )
      ]_vars

\* setTime has been called on a running timer.
C9_Witness ==
    /\ lastOp.op = "setTime"
    /\ state = "running"
    /\ lastOp.arg # totalSeconds

(***************************************************************************)
(* C10 -- totalSeconds is set only when not Running.                       *)
(***************************************************************************)
\* C10: no public operation invoked while state = Running changes
\* totalSeconds.
C10_TotalFixedWhileRunning ==
    [][ (state = "running" /\ PublicCall) => totalSeconds' = totalSeconds ]_vars

(***************************************************************************)
(* C11 -- an aborted session is logged with its elapsed time.              *)
(***************************************************************************)
\* C11: every completion event with completed = false carries as duration
\* the number of ticks that decremented remainingSeconds since the session
\* began, whatever pause, resume, setTime and adjustTime calls were made
\* during the session.
C11_AbortDurationIsElapsed ==
    [][ (state \in {"running", "paused"} /\ Abort)
        => \A i \in DOMAIN events' :
              (events'[i].type = "complete" /\ ~events'[i].args.completed)
              => events'[i].args.duration = sess.ticks
      ]_vars

(***************************************************************************)
(* C12 -- a break is logged as a break however it ends.                    *)
(***************************************************************************)
\* C12: every completion event emitted for an interval begun with startBreak
\* (a session in progress with isBreak set), by natural completion or by
\* abort, carries wasBreak = true.
C12_BreakEndsAsBreak ==
    [][ (isBreak /\ state \in {"running", "paused"} /\ (TickStep \/ PublicCall))
        => \A i \in DOMAIN events' :
              events'[i].type = "complete" => events'[i].args.wasBreak = TRUE
      ]_vars

(***************************************************************************)
(* C13 -- pause, reset and abort on an Idle timer.                         *)
(***************************************************************************)
\* C13: invoked while the timer is Idle, each of pause, reset and abort
\* leaves state, totalSeconds, remainingSeconds and isBreak unchanged and
\* emits no completion event, in every reachable Idle state.
C13_IdleCancelIsNoOp ==
    [][ (state = "idle" /\ (Pause \/ Reset \/ Abort))
        => ( /\ UNCHANGED <<state, totalSeconds, remainingSeconds, isBreak>>
             /\ Select(events', "complete") = <<>> )
      ]_vars

(***************************************************************************)
(* C14 -- start() while Running.                                           *)
(***************************************************************************)
\* C14: start() while state = Running changes no variable of the timer
\* (sessionStartTime and triggeredWarnings included), creates no second tick
\* timer and emits no event.
C14_StartWhileRunningIsNoOp ==
    [][ (state = "running" /\ Start)
        => (UNCHANGED timerVars /\ events' = <<>>)
      ]_vars

\* start() has been called on a running session that began earlier and has
\* already warned.
C14_Witness ==
    /\ lastOp.op = "start"
    /\ state = "running"
    /\ events = <<>>
    /\ now > sessionStartTime
    /\ triggeredWarnings # {}

(***************************************************************************)
(* C15 -- reset().                                                         *)
(***************************************************************************)
\* C15: reset() from any state cancels ticking and leaves state = Idle,
\* remainingSeconds = totalSeconds, triggeredWarnings empty and totalSeconds
\* unchanged; it emits exactly one tick event, then one state-change event,
\* and no completion event.
C15_Reset ==
    [][ Reset
        => ( /\ state' = "idle"
             /\ timers' = {}
             /\ totalSeconds' = totalSeconds
             /\ remainingSeconds' = totalSeconds
             /\ triggeredWarnings' = {}
             /\ Len(events') = 2
             /\ events'[1].type = "tick"
             /\ events'[1].args[2] = totalSeconds
             /\ events'[2] = [type |-> "stateChange", args |-> <<"idle">>] )
      ]_vars

\* reset() has been called on a session that had ticked and warned.
C15_Witness ==
    /\ lastOp.op = "reset"
    /\ state = "idle"
    /\ totalSeconds = 302
    /\ remainingSeconds = 302
    /\ triggeredWarnings = {}
    /\ Len(events) = 2

(***************************************************************************)
(* C16 -- startBreak().                                                    *)
(***************************************************************************)
\* C16: startBreak(b) from any state (Idle, Running or Paused) results in
\* state = Running, isBreak = true, totalSeconds = remainingSeconds = b,
\* triggeredWarnings empty and exactly one active tick timer, and emits a
\* tick event followed by a state-change (Running, isBreak = true) event.
C16_StartBreak ==
    [][ \A b \in BreakArgs :
          StartBreak(b)
          => ( /\ state' = "running"
               /\ isBreak' = TRUE
               /\ totalSeconds' = b
               /\ remainingSeconds' = b
               /\ triggeredWarnings' = {}
               /\ Cardinality(timers') = 1
               /\ Len(events') = 2
               /\ events'[1].type = "tick"
               /\ events'[2] = [type |-> "stateChange",
                                args |-> <<"running", TRUE>>] )
      ]_vars

(***************************************************************************)
(* C17 -- adjustTime(d) is setTime(totalSeconds + d).                      *)
(***************************************************************************)
\* C17: in a non-Running state with totalSeconds = T in [60, 43200],
\* adjustTime(d) leaves the timer as setTime(T + d) would (totalSeconds =
\* remainingSeconds = T + d clamped to [60, 43200], everything else as it
\* was) and emits the events setTime(T + d) would emit.
C17_AdjustIsSetTime ==
    [][ \A d \in AdjustArgs :
          ( /\ state # "running"
            /\ totalSeconds >= 60 /\ totalSeconds <= 43200
            /\ AdjustTime(d) )
          => LET r == setTime(Cur, totalSeconds + d) IN
             /\ totalSeconds' = Min(Max(totalSeconds + d, 60), 43200)
             /\ remainingSeconds' = totalSeconds'
             /\ totalSeconds' = r.totalSeconds
             /\ remainingSeconds' = r.remainingSeconds
             /\ events' = r.out
             /\ Len(events') = 1
             /\ UNCHANGED <<state, intervalId, sessionStartTime, isBreak,
                            triggeredWarnings, timers>>
      ]_vars

\* adjustTime(242) has taken a paused 60 s session, one tick in, to 302 s.
C17_Witness ==
    /\ lastOp = [op |-> "adjustTime", arg |-> 242]
    /\ state = "paused"
    /\ totalSeconds = 302
    /\ remainingSeconds = 302
    /\ sess.ticks = 1

(***************************************************************************)
(* C18 -- the stored history: newest first, at most 1000, never rewritten. *)
(***************************************************************************)
\* C18: after any sequence of addSession calls from an empty store (on a
\* storage that does not fail), the stored history holds at most 1000
\* records, has each new record at index 0 with the records stored before
\* following it unchanged and in their order, and consists of exactly the
\* most recently added records.
C18_NewestThousand ==
    [][ AddStep
        => LET old == Stored
               new == getSessions(localStorage', TRUE)
           IN  /\ Len(new) <= 1000
               /\ Len(new) = Min(Len(old) + 1, 1000)
               /\ new[1] = ret'.value
               /\ new[1] = added'[1]
               /\ \A i \in 2 .. Len(new) : new[i] = old[i - 1]
               /\ new = SubSeq(added', 1, Min(Len(added'), 1000))
      ]_vars

\* A history one short of full has received three more records, the last of
\* them unlike the one before it: the two oldest records are gone.
C18_Witness ==
    /\ Len(added) = 1002
    /\ Len(Stored) = 1000
    /\ Stored[1] = added[1]
    /\ Stored[1] # Stored[2]
    /\ Stored[1000] = added[1000]

(***************************************************************************)
(* C19 -- the day streak.                                                  *)
(***************************************************************************)
\* The days (of the start) of the stored completed focus sessions.
FocusDays ==
    {DatePart(Stored[i].startTime) :
        i \in {j \in DOMAIN Stored : Stored[j].completed /\ ~Stored[j].wasBreak}}

\* N consecutive days ending on day e have a completed focus session, the
\* day before them has none, and the run does not go on after e up to today.
StreakRun(e, N) ==
    /\ \A k \in 0 .. N - 1 : e - k \in FocusDays
    /\ e - N \notin FocusDays
    /\ e = Today - 1 => Today \notin FocusDays

\* C19: getStreak returns N when completed non-break sessions exist on each
\* of N consecutive days ending today or yesterday and on no day immediately
\* before that run; it returns 0 when neither today nor yesterday has a
\* completed non-break session; breaks and aborted sessions do not count.
C19_Streak ==
    ret.op = "getStreak"
    => /\ (Today \notin FocusDays /\ Today - 1 \notin FocusDays)
          => ret.value = 0
       /\ \A e \in {Today, Today - 1} : \A N \in 1 .. MaxAdds + MaxDays + 1 :
             StreakRun(e, N) => ret.value = N

\* getStreak has returned 2 for a run of two days that ended yesterday, on a
\* day with an aborted focus session only.
C19_Witness ==
    /\ ret.op = "getStreak"
    /\ ret.value = 2
    /\ StreakRun(Today - 1, 2)
    /\ \E i \in DOMAIN Stored :
          /\ DatePart(Stored[i].startTime) = Today
          /\ ~Stored[i].completed

(***************************************************************************)
(* C20 -- the statistics.                                                  *)
(***************************************************************************)
\* C20: getStats().todayTotal is the sum of duration over the stored sessions
\* whose start date is today and whose wasBreak is false; completedCount and
\* abortedCount are the numbers of stored non-break sessions with completed
\* true and false.
C20_Stats ==
    ret.op = "getStats"
    => LET focus == SelectSeq(Stored, LAMBDA s : ~s.wasBreak)
           today == SelectSeq(focus,
                              LAMBDA s : DatePart(s.startTime) = Today)
       IN  /\ ret.value.todayTotal = SumDuration(today)
           /\ ret.value.completedCount =
                  Cardinality({i \in DOMAIN focus : focus[i].completed})
           /\ ret.value.abortedCount =
                  Cardinality({i \in DOMAIN focus : ~focus[i].completed})

(***************************************************************************)
(* C24 -- what one tick does.                                              *)
(***************************************************************************)
\* C24: while Running, a tick with remainingSeconds > 0 decrements
\* remainingSeconds by exactly 1 and changes neither totalSeconds nor
\* isBreak nor the state; a tick with remainingSeconds = 0 completes the
\* session without decrementing; no tick makes remainingSeconds negative, and
\* no tick changes totalSeconds, or isBreak except by completing.
C24_TickStep ==
    [][ (state = "running" /\ TickStep)
        => /\ remainingSeconds > 0
              => /\ remainingSeconds' = remainingSeconds - 1
                 /\ Select(events', "complete") = <<>>
                 /\ UNCHANGED <<state, totalSeconds, isBreak>>
           /\ remainingSeconds = 0
              => /\ remainingSeconds' = 0
                 /\ Len(Select(events', "complete")) = 1
                 /\ state' = "idle"
           /\ remainingSeconds >= 0 => remainingSeconds' >= 0
           /\ totalSeconds' = totalSeconds
           /\ isBreak' # isBreak => Select(events', "complete") # <<>>
      ]_vars

\* A tick of a running interval at zero has completed it.
C24_Witness ==
    /\ lastOp.op = "tick"
    /\ state = "idle"
    /\ remainingSeconds = 0
    /\ sess.done = 1
    /\ Select(events, "complete") # <<>>

(***************************************************************************)
(* C25 -- pause().                                                         *)
(***************************************************************************)
\* C25: pause() from Running cancels ticking and moves to Paused, leaving
\* totalSeconds, remainingSeconds, isBreak, sessionStartTime and
\* triggeredWarnings unchanged and emitting one state-change event; from
\* Idle or Paused it changes nothing and emits no event.
C25_Pause ==
    [][ Pause
        => /\ state = "running"
              => /\ state' = "paused"
                 /\ timers' = {}
                 /\ intervalId' = NULL
                 /\ UNCHANGED <<totalSeconds, remainingSeconds, isBreak,
                                sessionStartTime, triggeredWarnings>>
                 /\ events' = <<[type |-> "stateChange",
                                 args |-> <<"paused">>]>>
           /\ state # "running"
              => (UNCHANGED timerVars /\ events' = <<>>)
      ]_vars

\* pause() has stopped a session that had ticked, warned and been running
\* for a while.
C25_Witness ==
    /\ lastOp.op = "pause"
    /\ state = "paused"
    /\ timers = {}
    /\ Len(events) = 1
    /\ triggeredWarnings # {}
    /\ now > sessionStartTime

(***************************************************************************)
(* C26 -- toggle().                                                        *)
(***************************************************************************)
\* The fields two timers agree on when one call did to the one what another
\* call did to the other.
SameTimer(a, b) ==
    /\ a.state = b.state
    /\ a.totalSeconds = b.totalSeconds
    /\ a.remainingSeconds = b.remainingSeconds
    /\ a.intervalId = b.intervalId
    /\ a.sessionStartTime = b.sessionStartTime
    /\ a.isBreak = b.isBreak
    /\ a.triggeredWarnings = b.triggeredWarnings
    /\ a.timers = b.timers

\* C26: toggle() does exactly what pause() does when state = Running and
\* what start() does when state is Idle or Paused; two consecutive toggles
\* from Running, no tick in between, end Running with remainingSeconds,
\* totalSeconds, isBreak, sessionStartTime and triggeredWarnings unchanged.
C26_Toggle ==
    [][ Toggle
        => /\ SameTimer(Cur',
                        IF state = "running" THEN pause(Cur)
                                             ELSE start(Cur, now))
           /\ events' = (IF state = "running" THEN pause(Cur)
                                              ELSE start(Cur, now)).out
           /\ state = "running"
              => LET again == toggle(Cur', now')
                 IN  /\ state' = "paused"
                     /\ again.state = "running"
                     /\ again.remainingSeconds = remainingSeconds
                     /\ again.totalSeconds = totalSeconds
                     /\ again.isBreak = isBreak
                     /\ again.sessionStartTime = sessionStartTime
                     /\ again.triggeredWarnings = triggeredWarnings
      ]_vars

\* toggle() has resumed a paused session that had ticked and warned.
C26_Witness ==
    /\ lastOp.op = "toggle"
    /\ state = "running"
    /\ sess.ticks > 0
    /\ triggeredWarnings # {}
    /\ now > sessionStartTime

(***************************************************************************)
(* C28 -- what a state-change event carries.                               *)
(***************************************************************************)
\* A step of start, pause, reset or abort, or a tick.
StateChangeSource == Start \/ Pause \/ Reset \/ Abort \/ TickStep

\* C28 as stated: every state-change event emitted by start, pause, reset,
\* abort and natural completion carries both the new state and the value of
\* the isBreak flag at the time of emission.
C28_StateAndFlag ==
    [][ StateChangeSource
        => \A i \in DOMAIN events' :
              events'[i].type = "stateChange"
              => events'[i].args = <<state', isBreak'>>
      ]_vars

\* C28, amended: every state-change event emitted by start, pause, reset,
\* abort and natural completion carries the new state; the one emitted by
\* start (new state Running) also carries isBreak; those emitted by pause,
\* reset, abort and natural completion carry the state alone.
C28_StateAndFlagOnStart ==
    [][ StateChangeSource
        => \A i \in DOMAIN events' :
              events'[i].type = "stateChange"
              => events'[i].args = IF state' = "running"
                                   THEN <<state', isBreak'>>
                                   ELSE <<state'>>
      ]_vars

\* pause() during a break has emitted a state-change event that carries the
\* state alone.
C28_Witness ==
    /\ lastOp.op = "pause"
    /\ isBreak
    /\ events = <<[type |-> "stateChange", args |-> <<"paused">>]>>

(***************************************************************************)
(* C29 -- the completion event of a natural completion.                    *)
(***************************************************************************)
\* C29: the completion event of a natural completion carries wasBreak equal
\* to isBreak as it was immediately before, duration equal to totalSeconds
\* and completed = true; after it the timer is Idle with isBreak = false.
C29_NaturalCompletion ==
    [][ TickStep
        => \A i \in DOMAIN events' :
              events'[i].type = "complete"
              => /\ events'[i].args.wasBreak = isBreak
                 /\ events'[i].args.duration = totalSeconds
                 /\ events'[i].args.completed = TRUE
                 /\ state' = "idle"
                 /\ isBreak' = FALSE
                 /\ Len(Select(events', "complete")) = 1
      ]_vars

\* A break has run to its end and been reported as a break.
C29_Witness ==
    /\ lastOp.op = "tick"
    /\ state = "idle"
    /\ ~isBreak
    /\ totalSeconds = 70
    /\ \E i \in DOMAIN events :
          /\ events[i].type = "complete"
          /\ events[i].args.wasBreak
          /\ events[i].args.duration = 70

(***************************************************************************)
(* C30 -- start() from Paused resumes the session.                         *)
(***************************************************************************)
\* C30: start() from Paused leaves sessionStartTime, triggeredWarnings,
\* remainingSeconds, totalSeconds and isBreak unchanged (start() stamps
\* sessionStartTime and clears triggeredWarnings from Idle only), and a tick
\* never fires the warning of a threshold held in triggeredWarnings: a
\* threshold that fired before the pause does not fire again after it.
C30_ResumeKeepsSession ==
    [][ /\ (state = "paused" /\ Start)
           => /\ state' = "running"
              /\ UNCHANGED <<sessionStartTime, triggeredWarnings,
                             remainingSeconds, totalSeconds, isBreak>>
        /\ (state = "running" /\ Start)
           => UNCHANGED <<sessionStartTime, triggeredWarnings>>
        /\ (state = "idle" /\ Start)
           => (sessionStartTime' = now /\ triggeredWarnings' = {})
        /\ TickStep
           => \A th \in triggeredWarnings : CountWarning(events', th) = 0
      ]_vars

\* start() has resumed a session that had warned before the pause, later
\* than it began.
C30_Witness ==
    /\ lastOp.op = "start"
    /\ state = "running"
    /\ Len(events) = 1
    /\ sess.ticks > 0
    /\ triggeredWarnings # {}
    /\ now > sessionStartTime

(***************************************************************************)
(* C27 -- a running timer left alone completes.                            *)
(***************************************************************************)
\* The last step emitted a completion event with completed = true and left
\* the timer Idle with no active interval timer (no further tick can fire).
CompletedAndStopped ==
    /\ state = "idle"
    /\ timers = {}
    /\ \E i \in DOMAIN events :
          events[i].type = "complete" /\ events[i].args.completed

\* C27: from any Running state, if the interval timer keeps firing and the
\* user makes no further call, the timer eventually emits a completion event
\* with completed = true and is Idle with no active interval timer.
C27_LeftAloneCompletes ==
    (quiet /\ state = "running") ~> CompletedAndStopped

\* The user left a running 302 s session; it has completed.
C27_Witness ==
    /\ quiet
    /\ CompletedAndStopped
    /\ totalSeconds = 302
    /\ sess.done = 1

(***************************************************************************)
(* C22 -- settings and sessions are stored apart.                          *)
(***************************************************************************)
\* C22: saveSetting(k, v) leaves the stored session list unchanged,
\* addSession leaves the stored settings unchanged, and getSetting(k, d)
\* returns the value most recently saved for k, or d if none was saved.
C22_SettingsApart ==
    [][ /\ \A k \in SettingKeys : \A v \in SettingValues :
              SaveSetting(k, v)
              => /\ localStorage'[STORAGE_KEY] = localStorage[STORAGE_KEY]
                 /\ getSessions(localStorage', TRUE) = Stored
        /\ AddStep
           => /\ localStorage'[SETTINGS_KEY] = localStorage[SETTINGS_KEY]
              /\ getSettings(localStorage', TRUE) = getSettings(localStorage, TRUE)
        /\ \A k \in SettingKeys : \A d \in SettingValues :
              GetSetting(k, d)
              => ret'.value.result = IF saved[k].set THEN saved[k].value
                                                     ELSE d
      ]_vars

\* With sessions stored, getSetting has returned the value saved for a key
\* against the other default, after the other key was saved too.
C22_Witness ==
    /\ ret.op = "getSetting"
    /\ ret.value.key = "muted"
    /\ ret.value.result = TRUE
    /\ ret.value.default = FALSE
    /\ saved["muted"] = [set |-> TRUE, value |-> TRUE]
    /\ saved["volume"].set
    /\ Len(Stored) = 2

(***************************************************************************)
(* C23 -- the ids of the stored records.                                   *)
(***************************************************************************)
\* C23: for any sequence of addSession calls, with a clock that never goes
\* backwards but may return the same millisecond twice, the ids of the
\* stored records strictly decrease along the newest-first list (so are
\* pairwise distinct).
C23_IdsDecrease ==
    \A i, j \in DOMAIN Stored : i < j => Stored[i].id > Stored[j].id

(***************************************************************************)
(* C21 -- storage failures stay inside History.                            *)
(***************************************************************************)
\* A step in which the timer completed a focus session: the controller's
\* handleComplete called addSession.
CompletionLogged ==
    /\ lastOp'.op = "tick"
    /\ \E i \in DOMAIN events' :
          events'[i].type = "complete" /\ ~events'[i].args.wasBreak

\* C21: whether the storage read and the storage write succeed or fail, no
\* call of getStats, getRecentSessions, getSetting, saveSetting or (from the
\* timer's completion) addSession ends in an exception; when the read fails,
\* getStats returns the statistics of an empty history, getRecentSessions
\* an empty list, getSetting the default, and addSession stores the new
\* record alone; when the write fails, saveSetting and addSession leave the
\* storage as it was; and a tick that completes a focus session leaves the
\* timer idle, with onStateChange invoked after onComplete.
C21_FailuresContained ==
    [][ /\ ~threw'
        /\ CallGetStats(FALSE)
           => ret'.value = getStats(EmptyStorage, now, TRUE)
        /\ \A limit \in RecentLimits :
              CallGetRecentSessions(limit, FALSE) => ret'.value = <<>>
        /\ \A d \in SettingValues :
              CallGetSetting("muted", d, FALSE) => ret'.value.result = d
        /\ \A v \in SettingValues : \A readOk \in BOOLEAN :
              CallSaveSetting("muted", v, readOk, FALSE)
              => localStorage' = localStorage
        /\ \A id \in timers : \A readOk \in BOOLEAN :
              AppTick(id, readOk, FALSE) => localStorage' = localStorage
        /\ \A id \in timers :
              AppTick(id, FALSE, TRUE) /\ CompletionLogged
              => getSessions(localStorage', TRUE) = <<added'[1]>>
        /\ CompletionLogged
           => /\ state' = "idle"
              /\ Select(events', "stateChange") # <<>>
              /\ Before(events', "complete", "stateChange")
      ]_vars

\* A focus session has run to its end while the storage refused the write:
\* the record was created and nothing is stored, the timer is idle and the
\* break dialog is shown.
C21_Witness ==
    /\ lastOp.op = "tick"
    /\ Select(events, "complete") # <<>>
    /\ Len(added) = 1
    /\ ~localStorage[STORAGE_KEY].present
    /\ state = "idle"
    /\ breakModal
    /\ ~threw

(***************************************************************************)
(* C33 -- an idle timer is never a break.                                  *)
(***************************************************************************)
\* C33: whenever the timer is Idle between operations isBreak is false, and
\* a call of startBreak, the only function that sets the flag, has left the
\* timer Running with the flag set.
C33_IdleIsNoBreak ==
    /\ state = "idle" => ~isBreak
    /\ lastOp.op = "startBreak" => state = "running" /\ isBreak

\* A break has just run to its end: the timer is Idle again and the flag,
\* reported as wasBreak, is cleared.
C33_Witness ==
    /\ state = "idle"
    /\ ~isBreak
    /\ lastOp.op = "tick"
    /\ \E i \in DOMAIN events :
          events[i].type = "complete" /\ events[i].args.wasBreak

(***************************************************************************)
(* C35 -- a failed read in addSession and the history.                     *)
(***************************************************************************)
\* C35: when the storage read inside addSession fails and the write that
\* follows succeeds, every record stored before the call is still stored
\* after it, behind the new one, up to the limit of MAX_SESSIONS records.
C35_ReadFailureKeepsHistory ==
    [][ \A id \in timers :
           AppTick(id, FALSE, TRUE) /\ CompletionLogged
           => SubSeq(Stored', 2, Len(Stored'))
              = SubSeq(Stored, 1, Min(Len(Stored), MAX_SESSIONS - 1))
      ]_vars

(***************************************************************************)
(* C31 -- a completed session has been counted down in full.               *)
(***************************************************************************)
\* C31: a tick emits a completion event with completed = true only when
\* remainingSeconds has been decremented at least totalSeconds times (the
\* duration the event reports) since the start that took the timer from Idle
\* to Running, whatever Idle state that start found: also the one a natural
\* completion leaves behind.
C31_CompletionTakesTotalTicks ==
    [][ lastOp'.op = "tick"
        => \A i \in DOMAIN events' :
              (events'[i].type = "complete" /\ events'[i].args.completed)
              => sess.ticks >= events'[i].args.duration
      ]_vars

(***************************************************************************)
(* C32 -- one record per session.                                          *)
(***************************************************************************)
\* C32: between two consecutive starts from Idle at most one completion event
\* is emitted and at most one record is appended to the history, however the
\* ticks and the user's actions interleave: a step never leaves more than one
\* completion event counted since the last start, and a step that appends to
\* the history appends one record and finds no completion event counted yet.
C32_OneRecordPerSession ==
    [][ /\ sess'.done <= 1
        /\ Len(added') > Len(added)
           => Len(added') = Len(added) + 1 /\ sess.done = 0
      ]_vars

(***************************************************************************)
(* C34 -- no keyboard shortcut while a dialog is shown.                    *)
(***************************************************************************)
\* C34: in every state the controller reaches, if the break dialog or the
\* abort dialog is shown the keyboard shortcuts are disabled, and no key
\* pressed while a dialog is shown changes the timer.
C34_ModalDisablesKeys ==
    [][ /\ (breakModal' \/ abortModal') => ~isEnabled'
        /\ ( /\ breakModal \/ abortModal
             /\ \E action \in KeyActions : KeyDown(action) )
           => UNCHANGED timerVars
      ]_vars

=============================================================================
